---------------------------- MODULE Spec2Model ----------------------------
(***************************************************************************)
(* A model of binclude: the embedded virtual filesystem (package binclude) *)
(* and the generator that partitions included files into bundles (package  *)
(* bincludegen).                                                           *)
(*                                                                         *)
(* Paths and file names are strings; file contents are sequences of bytes  *)
(* (integers 0..255).  A *File is identified by the key of the map that    *)
(* holds it (runtime store) or by an address of a heap (generator).        *)
(***************************************************************************)
EXTENDS Integers, Sequences, FiniteSets, TLC

VARIABLES
    files,          \* FileSystem.Files of the runtime store: path -> File
    handles,        \* the http.File values callers hold, in the order Open returned them
    host,           \* the host filesystem CopyFile writes to: host path -> file
    umask,          \* the process's file mode creation mask (set of permission bits)
    last,           \* what the last call returned to its caller
    pc,             \* concurrent callers of Open: the statement each is at
    arg,            \* concurrent callers of Open: the local variable name
    stage,          \* Encode / Decompress pipeline: which of the two has run
    orig,           \* the contents the store held before Encode (for comparison)
    includedFiles,  \* buildFS: its argument, a sequence of includedFile
    idx,            \* buildFS: the position of the loop over includedFiles
    fileSystems,    \* buildFS: bundle key -> (path -> address of a File)
    heap,           \* the File values buildFS has allocated: address -> File
    buildTag,       \* buildFS: the bundle key of the include being walked
    encoded,        \* Generate: the bundles its loop has called Encode on
    genpc,          \* Generate: the statement it is at
    compress        \* Generate: the compression algorithm it was called with

vars == <<files, handles, host, umask, last, pc, arg, stage, orig,
          includedFiles, idx, fileSystems, heap, buildTag, encoded, genpc, compress>>

runtimeVars == <<files, handles, host, umask, last>>
concVars    == <<pc, arg>>
codecVars   == <<stage, orig>>
genVars     == <<includedFiles, idx, fileSystems, heap, buildTag, encoded, genpc, compress>>

(***************************************************************************)
(* Bounds of the model.                                                    *)
(***************************************************************************)
MaxHandles    == 2   \* handles callers hold at once
MaxOpen       == 1   \* the same, where only whole calls are observed
MaxRead       == 2   \* largest buffer passed to Read
MaxSeek       == 1   \* how far past the end Seek is followed
NumGoroutines == 2   \* concurrent callers of Open
MaxIncludes   == 2   \* length of buildFS's argument

(***************************************************************************)
(* strings, path/filepath                                                  *)
(***************************************************************************)
Min(a, b) == IF a <= b THEN a ELSE b

HasPrefix(s, p) == Len(s) >= Len(p) /\ SubSeq(s, 1, Len(p)) = p

HasSuffix(s, p) == Len(s) >= Len(p) /\ SubSeq(s, Len(s) - Len(p) + 1, Len(s)) = p

TrimPrefix(s, p) == IF HasPrefix(s, p) THEN SubSeq(s, Len(p) + 1, Len(s)) ELSE s

CharAt(s, i) == SubSeq(s, i, i)

\* the index of the last "/" of s, 0 when it has none
LastSlash(s) ==
    LET idxs == {i \in 1..Len(s) : CharAt(s, i) = "/"}
    IN  IF idxs = {} THEN 0 ELSE CHOOSE i \in idxs : \A j \in idxs : j <= i

\* the "/"-separated elements of s
RECURSIVE Split(_)
Split(s) ==
    LET idxs == {i \in 1..Len(s) : CharAt(s, i) = "/"}
    IN  IF idxs = {} THEN <<s>>
        ELSE LET i == CHOOSE k \in idxs : \A j \in idxs : k <= j
             IN  <<SubSeq(s, 1, i - 1)>> \o Split(SubSeq(s, i + 1, Len(s)))

RECURSIVE Join(_)
Join(elems) ==
    IF elems = <<>> THEN ""
    ELSE IF Len(elems) = 1 THEN elems[1]
    ELSE elems[1] \o "/" \o Join(Tail(elems))

\* filepath.Clean's walk over the elements: "" and "." are dropped, ".."
\* removes the element before it (or is kept, in a relative path with none)
RECURSIVE CleanElems(_, _, _)
CleanElems(elems, out, rooted) ==
    IF elems = <<>> THEN out
    ELSE LET e == Head(elems) IN
         IF e = "" \/ e = "." THEN CleanElems(Tail(elems), out, rooted)
         ELSE IF e = ".." THEN
              IF out # <<>> /\ out[Len(out)] # ".."
                  THEN CleanElems(Tail(elems), SubSeq(out, 1, Len(out) - 1), rooted)
              ELSE IF rooted THEN CleanElems(Tail(elems), out, rooted)
              ELSE CleanElems(Tail(elems), Append(out, ".."), rooted)
         ELSE CleanElems(Tail(elems), Append(out, e), rooted)

Clean(s) ==
    IF s = "" THEN "."
    ELSE LET rooted == CharAt(s, 1) = "/"
             body   == Join(CleanElems(Split(s), <<>>, rooted))
             res    == IF rooted THEN "/" \o body ELSE body
         IN  IF res = "" THEN "." ELSE res

\* filepath.Dir: all but the last element of path, cleaned
Dir(path) == Clean(SubSeq(path, 1, LastSlash(path)))

\* the characters of the names the model uses, in byte order
Alphabet == "./0123456789_abcdefghijklmnopqrstuvwxyz"

Ord(c) == CHOOSE i \in 1..Len(Alphabet) : CharAt(Alphabet, i) = c

\* Go's < on strings: byte-wise lexicographic
RECURSIVE StrLess(_, _)
StrLess(a, b) ==
    IF b = "" THEN FALSE
    ELSE IF a = "" THEN TRUE
    ELSE IF CharAt(a, 1) = CharAt(b, 1) THEN StrLess(Tail(a), Tail(b))
    ELSE Ord(CharAt(a, 1)) < Ord(CharAt(b, 1))


(***************************************************************************)
(* binclude.File, binclude.FileInfo, bytes.Reader                          *)
(***************************************************************************)
\* a nil io.ReadSeeker
NilReader == [valid |-> FALSE, s |-> <<>>, i |-> 0]

\* bytes.NewReader(b): a reader over b positioned at its start
NewReader(b) == [valid |-> TRUE, s |-> b, i |-> 0]

\* the composite literal &binclude.File{Filename, Mode, ModTime, Content}:
\* the remaining fields hold their zero values
MkFile(name, mode, mtime, content) ==
    [Filename |-> name, Mode |-> mode, ModTime |-> mtime, Content |-> content,
     Compression |-> "None", reader |-> NilReader, path |-> "", fs |-> FALSE]

\* os.FileMode as the directory flag and the set of permission bits
Perm0644 == {"ur", "uw", "gr", "or"}
Perm0755 == {"ur", "uw", "ux", "gr", "gx", "or", "ox"}
Perm0600 == {"ur", "uw"}
FileMode(isDir, perm) == [dir |-> isDir, perm |-> perm]

\* (*File).Stat: a snapshot of the record's metadata
FileStat(f) ==
    [name |-> f.Filename, mode |-> f.Mode, size |-> Len(f.Content), modtime |-> f.ModTime]

\* (*bytes.Reader).Read with a buffer of n bytes
ReaderRead(r, n) ==
    IF r.i >= Len(r.s)
        THEN [r |-> r, data |-> <<>>, err |-> "EOF"]
        ELSE LET m == Min(n, Len(r.s) - r.i)
             IN  [r |-> [r EXCEPT !.i = r.i + m],
                  data |-> SubSeq(r.s, r.i + 1, r.i + m), err |-> ""]

\* the position (*bytes.Reader).Seek computes; whence is io.SeekStart (0),
\* io.SeekCurrent (1) or io.SeekEnd (2)
SeekAbs(r, offset, whence) ==
    CASE whence = 0 -> offset
      [] whence = 1 -> r.i + offset
      [] whence = 2 -> Len(r.s) + offset

\* (*bytes.Reader).Seek
ReaderSeek(r, offset, whence) ==
    IF SeekAbs(r, offset, whence) < 0
        THEN [r |-> r, err |-> "negative position"]
        ELSE [r |-> [r EXCEPT !.i = SeekAbs(r, offset, whence)], err |-> ""]

\* ioutil.ReadAll on a reader: everything from its position to the end
ReadAll(r) == SubSeq(r.s, r.i + 1, Len(r.s))

(***************************************************************************)
(* binclude.FileSystem at run time, with Debug left at false               *)
(***************************************************************************)
\* Open without the TrimPrefix: the name is looked up as given
OpenKeyAsGiven(name) == name

\* the name Open looks up: one leading "./" removed
OpenKey(name) == TrimPrefix(name, "./")

\* what Open(name) returns on the store fs: the error, or the File (its key)
OpenOutcome(fs, name) ==
    IF OpenKey(name) \in DOMAIN fs
        THEN [err |-> "", key |-> OpenKey(name)]
        ELSE [err |-> "NotFound", key |-> ""]

\* the assignments Open makes to the File it returns
FileOpened(f, key) == [f EXCEPT !.reader = NewReader(f.Content), !.path = key, !.fs = TRUE]

\* (*File).Close
FileClosed(f) == [f EXCEPT !.reader = NilReader]

\* Readdir without the IsDir test: always the directory holding the file
ReaddirTargetOfParent(f) == Dir(f.path)

\* the directory (*File).Readdir lists for the opened file f
ReaddirTarget(f) == IF f.Mode.dir THEN f.path ELSE Dir(f.path)

\* the keys of the store (*File).Readdir keeps
ReaddirKeys(fs, f) == {p \in DOMAIN fs : Dir(p) = ReaddirTarget(f)}

\* all orders in which a range over a map can visit the keys in S
Orders(S) ==
    {o \in [1..Cardinality(S) -> S] : \A i, j \in 1..Cardinality(S) : i # j => o[i] # o[j]}

\* insertion of x into a list sorted by Name()
RECURSIVE InsertByName(_, _)
InsertByName(x, list) ==
    IF list = <<>> THEN <<x>>
    ELSE IF StrLess(x.name, Head(list).name) THEN <<x>> \o list
    ELSE <<Head(list)>> \o InsertByName(x, Tail(list))

\* ReadDir without the sort.Slice: the list in the order of the range
Unsorted(list) == list

\* sort.Slice(list, func(i, j) { return list[i].Name() < list[j].Name() })
RECURSIVE SortByName(_)
SortByName(list) ==
    IF list = <<>> THEN <<>> ELSE InsertByName(Head(list), SortByName(Tail(list)))

\* what a call returned: every field is present for every operation
Result(op, name, err) ==
    [op |-> op, name |-> name, err |-> err, key |-> "", data |-> <<>>, list |-> <<>>,
     hnd |-> 0, n |-> 0, closedBefore |-> FALSE, expOff |-> 0, dst |-> ""]

NotFound == "NotFound"

\* the paths of the stores of the model, and the record each holds
StorePaths == {"a.txt", "dir", "dir/b.txt", "dir/c.txt"}

Hello == <<104, 101, 108, 108, 111>>
World == <<119, 111, 114, 108, 100>>

Base(path) == SubSeq(path, LastSlash(path) + 1, Len(path))

StoreFile(p) ==
    CASE p = "a.txt"     -> MkFile(Base(p), FileMode(FALSE, Perm0644), Len(p), Hello)
      [] p = "dir"       -> MkFile(Base(p), FileMode(TRUE, Perm0755), Len(p), <<>>)
      [] p = "dir/b.txt" -> MkFile(Base(p), FileMode(FALSE, Perm0600), Len(p), World)
      [] p = "dir/c.txt" -> MkFile(Base(p), FileMode(FALSE, Perm0755), Len(p), <<33, 10>>)

\* the stores whose handles are read and seeked: short files
HandlePaths == {"dir", "dir/c.txt"}

\* the names callers pass to those stores
HandleNames == {"dir", "dir/c.txt", "./dir/c.txt", "missing.txt"}

\* the names callers pass
Names == StorePaths \cup {"./a.txt", "./dir", "././a.txt", "missing.txt"}

HostPaths == {"out"}
NoHostFile == [exists |-> FALSE, content |-> <<>>, perm |-> {}]
OldHostFile == [exists |-> TRUE, content |-> <<120, 120>>, perm |-> Perm0600]

Handles == 1..Len(handles)

\* Open(name)
Open(name) ==
    LET key == OpenKey(name) IN
    /\ IF key \in DOMAIN files
          THEN /\ files' = [files EXCEPT ![key] = FileOpened(@, key)]
               /\ handles' = Append(handles, [rec |-> key, off |-> 0, closed |-> FALSE])
               /\ last' = [Result("open", name, "") EXCEPT !.key = key, !.hnd = Len(handles) + 1]
          ELSE /\ last' = Result("open", name, NotFound)
               /\ UNCHANGED <<files, handles>>
    /\ UNCHANGED <<host, umask, concVars, codecVars, genVars>>

\* (*File).Read on the handle h with a buffer of n bytes
Read(h, n) ==
    LET hd  == handles[h]
        f   == files[hd.rec]
        res == ReaderRead(f.reader, n)
        rep == [Result("read", hd.rec, "") EXCEPT
                   !.hnd = h, !.n = n, !.closedBefore = hd.closed, !.expOff = hd.off]
    IN
    /\ IF ~f.reader.valid
          THEN /\ last' = [rep EXCEPT !.err = "panic"]
               /\ UNCHANGED files
          ELSE /\ last' = [rep EXCEPT !.err = res.err, !.data = res.data]
               /\ files' = [files EXCEPT ![hd.rec].reader = res.r]
    /\ handles' = [handles EXCEPT ![h].off = IF hd.off >= Len(f.Content) THEN hd.off
                                             ELSE Min(hd.off + n, Len(f.Content))]
    /\ UNCHANGED <<host, umask, concVars, codecVars, genVars>>

\* (*File).Seek on the handle h
Seek(h, offset, whence) ==
    LET hd    == handles[h]
        f     == files[hd.rec]
        res   == ReaderSeek(f.reader, offset, whence)
        mine  == [valid |-> TRUE, s |-> f.Content, i |-> hd.off]
        rep   == [Result("seek", hd.rec, "") EXCEPT !.hnd = h, !.closedBefore = hd.closed]
    IN
    /\ SeekAbs(mine, offset, whence) <= Len(f.Content) + MaxSeek
    /\ IF ~f.reader.valid
          THEN /\ last' = [rep EXCEPT !.err = "panic"]
               /\ UNCHANGED files
          ELSE /\ SeekAbs(f.reader, offset, whence) <= Len(f.Content) + MaxSeek
               /\ last' = [rep EXCEPT !.err = res.err]
               /\ files' = [files EXCEPT ![hd.rec].reader = res.r]
    /\ handles' = [handles EXCEPT ![h].off = ReaderSeek(mine, offset, whence).r.i]
    /\ UNCHANGED <<host, umask, concVars, codecVars, genVars>>

\* (*File).Close on the handle h
Close(h) ==
    /\ files' = [files EXCEPT ![handles[h].rec] = FileClosed(@)]
    /\ handles' = [handles EXCEPT ![h].closed = TRUE]
    /\ last' = [Result("close", handles[h].rec, "") EXCEPT !.hnd = h]
    /\ UNCHANGED <<host, umask, concVars, codecVars, genVars>>

\* FileSystem.Stat(name): Open, Stat, and the deferred Close
Stat(name) ==
    LET key == OpenKey(name) IN
    /\ IF key \in DOMAIN files
          THEN /\ files' = [files EXCEPT ![key] = FileClosed(FileOpened(@, key))]
               /\ last' = [Result("stat", name, "") EXCEPT
                              !.key = key, !.list = <<FileStat(files[key])>>]
          ELSE /\ last' = Result("stat", name, NotFound)
               /\ UNCHANGED files
    /\ UNCHANGED <<handles, host, umask, concVars, codecVars, genVars>>

\* FileSystem.ReadFile(filename): Open, ioutil.ReadAll, and the deferred Close
ReadFile(name) ==
    LET key == OpenKey(name) IN
    /\ IF key \in DOMAIN files
          THEN /\ files' = [files EXCEPT ![key] = FileClosed(FileOpened(@, key))]
               /\ last' = [Result("readFile", name, "") EXCEPT
                              !.key = key, !.data = ReadAll(FileOpened(files[key], key).reader)]
          ELSE /\ last' = Result("readFile", name, NotFound)
               /\ UNCHANGED files
    /\ UNCHANGED <<handles, host, umask, concVars, codecVars, genVars>>

\* FileSystem.ReadDir(dirname): Open, Readdir(-1) in the order the range over
\* the map happens to take, Close, sort.Slice
ReadDir(name) ==
    LET key == OpenKey(name) IN
    /\ IF key \in DOMAIN files
          THEN LET opened == [files EXCEPT ![key] = FileOpened(@, key)]
               IN  \E o \in Orders(ReaddirKeys(opened, opened[key])) :
                      /\ files' = [opened EXCEPT ![key] = FileClosed(@)]
                      /\ last' = [Result("readDir", name, "") EXCEPT
                                     !.key = key,
                                     !.list = SortByName([i \in DOMAIN o |-> FileStat(opened[o[i]])])]
          ELSE /\ last' = Result("readDir", name, NotFound)
               /\ UNCHANGED files
    /\ UNCHANGED <<handles, host, umask, concVars, codecVars, genVars>>

\* os.OpenFile(hostPath, O_WRONLY|O_CREATE|O_TRUNC, perm) followed by
\* io.Copy(dst, src): an existing file is truncated and keeps its mode, a new
\* one is created with perm less the umask
HostWritten(old, content, perm) ==
    [exists |-> TRUE, content |-> content,
     perm |-> IF old.exists THEN old.perm ELSE perm \ umask]

\* FileSystem.CopyFile(bincludePath, hostPath); ok: whether the host lets
\* the destination be opened
CopyFile(name, hostPath, ok) ==
    LET key == OpenKey(name) IN
    /\ IF key \in DOMAIN files
          THEN /\ files' = [files EXCEPT ![key] = FileClosed(FileOpened(@, key))]
               /\ IF ok
                     THEN /\ host' = [host EXCEPT ![hostPath] =
                                        HostWritten(@, ReadAll(FileOpened(files[key], key).reader),
                                                    files[key].Mode.perm)]
                          /\ last' = [Result("copyFile", name, "") EXCEPT
                                         !.key = key, !.dst = hostPath]
                     ELSE /\ last' = [Result("copyFile", name, "HostIO") EXCEPT
                                         !.key = key, !.dst = hostPath]
                          /\ UNCHANGED host
          ELSE /\ last' = Result("copyFile", name, NotFound)
               /\ UNCHANGED <<files, host>>
    /\ UNCHANGED <<handles, umask, concVars, codecVars, genVars>>

InitIdle ==
    /\ pc = [g \in 1..NumGoroutines |-> "idle"]
    /\ arg = [g \in 1..NumGoroutines |-> ""]
    /\ stage = "off"
    /\ orig = <<>>
    /\ includedFiles = <<>>
    /\ idx = 0
    /\ fileSystems = <<>>
    /\ heap = <<>>
    /\ buildTag = ""
    /\ encoded = {}
    /\ genpc = "off"
    /\ compress = "None"

\* the store holds short files; the host and the umask vary
Init ==
    /\ files \in {[p \in S |-> StoreFile(p)] : S \in SUBSET HandlePaths}
    /\ handles = <<>>
    /\ host \in [HostPaths -> {NoHostFile, OldHostFile}]
    /\ umask \in {{}, {"gw", "ow"}}
    /\ last = Result("", "", "")
    /\ InitIdle

Next ==
    \/ Len(handles) < MaxHandles /\ \E name \in HandleNames : Open(name)
    \/ \E h \in Handles, n \in 1..MaxRead : Read(h, n)
    \/ \E h \in Handles, offset \in {-1, 0, 1}, whence \in 0..2 : Seek(h, offset, whence)
    \/ \E h \in Handles : Close(h)
    \/ \E name \in HandleNames : Stat(name)
    \/ \E name \in HandleNames : ReadFile(name)
    \/ \E name \in HandleNames : ReadDir(name)
    \/ \E name \in HandleNames, hostPath \in HostPaths, ok \in BOOLEAN : CopyFile(name, hostPath, ok)

Spec == Init /\ [][Next]_vars

\* any store over StorePaths; only the calls on the FileSystem and Close
InitCalls ==
    /\ files \in {[p \in S |-> StoreFile(p)] : S \in SUBSET StorePaths}
    /\ handles = <<>>
    /\ host = [p \in HostPaths |-> NoHostFile]
    /\ umask = {}
    /\ last = Result("", "", "")
    /\ InitIdle

NextCalls ==
    \/ Len(handles) < MaxOpen /\ \E name \in Names : Open(name)
    \/ \E h \in Handles : Close(h)
    \/ \E name \in Names : Stat(name)
    \/ \E name \in Names : ReadFile(name)
    \/ \E name \in Names : ReadDir(name)

SpecCalls == InitCalls /\ [][NextCalls]_vars


(***************************************************************************)
(* Open called from several goroutines.  FileSystem embeds a sync.RWMutex, *)
(* but Open calls neither Lock nor RLock: its statements interleave freely *)
(* with those of other callers.  One action per statement that reads or    *)
(* writes shared memory.                                                   *)
(***************************************************************************)
Goroutines == 1..NumGoroutines

ConcNames == {"a.txt", "./a.txt", "dir/b.txt", "missing.txt"}

\* name = strings.TrimPrefix(name, "./"); f, ok := fs.Files[name]
ConcLookup(g, name) ==
    /\ pc[g] = "idle"
    /\ arg' = [arg EXCEPT ![g] = OpenKey(name)]
    /\ pc' = [pc EXCEPT ![g] = IF OpenKey(name) \in DOMAIN files THEN "reader" ELSE "notfound"]
    /\ UNCHANGED <<runtimeVars, codecVars, genVars>>

\* f.reader = bytes.NewReader(f.Content)
ConcSetReader(g) ==
    /\ pc[g] = "reader"
    /\ files' = [files EXCEPT ![arg[g]].reader = NewReader(files[arg[g]].Content)]
    /\ pc' = [pc EXCEPT ![g] = "path"]
    /\ UNCHANGED <<handles, host, umask, last, arg, codecVars, genVars>>

\* f.path = name
ConcSetPath(g) ==
    /\ pc[g] = "path"
    /\ files' = [files EXCEPT ![arg[g]].path = arg[g]]
    /\ pc' = [pc EXCEPT ![g] = "fs"]
    /\ UNCHANGED <<handles, host, umask, last, arg, codecVars, genVars>>

\* f.fs = fs
ConcSetFs(g) ==
    /\ pc[g] = "fs"
    /\ files' = [files EXCEPT ![arg[g]].fs = TRUE]
    /\ pc' = [pc EXCEPT ![g] = "return"]
    /\ UNCHANGED <<handles, host, umask, last, arg, codecVars, genVars>>

\* return f, nil / return nil, &os.PathError{...}
ConcReturn(g) ==
    /\ pc[g] \in {"return", "notfound"}
    /\ last' = IF pc[g] = "return"
                  THEN [Result("open", arg[g], "") EXCEPT !.key = arg[g], !.hnd = g]
                  ELSE [Result("open", arg[g], NotFound) EXCEPT !.hnd = g]
    /\ pc' = [pc EXCEPT ![g] = "idle"]
    /\ UNCHANGED <<files, handles, host, umask, arg, codecVars, genVars>>

InitConc ==
    /\ files \in {[p \in S |-> StoreFile(p)] : S \in {{"a.txt"}, {"a.txt", "dir/b.txt"}}}
    /\ handles = <<>>
    /\ host = [p \in HostPaths |-> NoHostFile]
    /\ umask = {}
    /\ last = Result("", "", "")
    /\ InitIdle

NextConc ==
    \/ \E g \in Goroutines, name \in ConcNames : ConcLookup(g, name)
    \/ \E g \in Goroutines : ConcSetReader(g)
    \/ \E g \in Goroutines : ConcSetPath(g)
    \/ \E g \in Goroutines : ConcSetFs(g)
    \/ \E g \in Goroutines : ConcReturn(g)

SpecConc == InitConc /\ [][NextConc]_vars

(***************************************************************************)
(* Encode / Decompress: encoding/hex, compress/gzip, mimetype              *)
(***************************************************************************)
\* hex.EncodeToString: the byte of "0123456789abcdef" for a nibble
HexDigit(n) == IF n < 10 THEN 48 + n ELSE 87 + n

RECURSIVE HexEncode(_)
HexEncode(b) ==
    IF b = <<>> THEN <<>>
    ELSE <<HexDigit(Head(b) \div 16), HexDigit(Head(b) % 16)>> \o HexEncode(Tail(b))

\* hex's fromHexChar: the nibble a byte stands for, -1 for a byte that is no
\* hexadecimal digit
FromHexChar(c) ==
    IF c >= 48 /\ c <= 57 THEN c - 48
    ELSE IF c >= 97 /\ c <= 102 THEN c - 87
    ELSE IF c >= 65 /\ c <= 70 THEN c - 55
    ELSE -1

\* hex.Decode: pairs of digits; an invalid byte or an odd length is an error
RECURSIVE HexDecode(_)
HexDecode(src) ==
    IF src = <<>> THEN [err |-> "", data |-> <<>>]
    ELSE IF FromHexChar(src[1]) < 0 THEN [err |-> "hex: invalid byte", data |-> <<>>]
    ELSE IF Len(src) = 1 THEN [err |-> "hex: odd length", data |-> <<>>]
    ELSE IF FromHexChar(src[2]) < 0 THEN [err |-> "hex: invalid byte", data |-> <<>>]
    ELSE LET rest == HexDecode(SubSeq(src, 3, Len(src)))
         IN  IF rest.err # "" THEN rest
             ELSE [err |-> "",
                   data |-> <<FromHexChar(src[1]) * 16 + FromHexChar(src[2])>> \o rest.data]

\* The gzip container: the magic number and method, the payload, and a
\* trailer of checksum and length.  The DEFLATE stream is taken as stored
\* blocks and the CRC-32 as a sum of the bytes.
GzipHeader == <<31, 139, 8>>

RECURSIVE ByteSum(_)
ByteSum(b) == IF b = <<>> THEN 0 ELSE (Head(b) + ByteSum(Tail(b))) % 256

\* gzip.NewWriter(b); Write(data); Close()
GzipCompress(data) == GzipHeader \o data \o <<ByteSum(data), Len(data) % 256>>

\* gzip.NewReader followed by ioutil.ReadAll
GzipDecompress(src) ==
    IF Len(src) < Len(GzipHeader) + 2 \/ SubSeq(src, 1, Len(GzipHeader)) # GzipHeader
        THEN [err |-> "Gzip err", data |-> <<>>]
    ELSE LET data == SubSeq(src, Len(GzipHeader) + 1, Len(src) - 2)
         IN  IF <<src[Len(src) - 1], src[Len(src)]>> # <<ByteSum(data), Len(data) % 256>>
                 THEN [err |-> "Reader err", data |-> <<>>]
                 ELSE [err |-> "", data |-> data]

PngMagic  == <<137, 80, 78, 71, 13, 10, 26, 10>>
GifMagic  == <<71, 73, 70, 56, 57, 97>>
JpegMagic == <<255, 216, 255>>
GzipMagic == <<31, 139>>
ZipMagic  == <<80, 75, 3, 4>>

BytesPrefix(b, m) == Len(b) >= Len(m) /\ SubSeq(b, 1, Len(m)) = m

\* mimetype.Detect(content).String(): the type sniffed from the leading bytes
Detect(content) ==
    IF BytesPrefix(content, PngMagic) THEN "image/png"
    ELSE IF BytesPrefix(content, GifMagic) THEN "image/gif"
    ELSE IF BytesPrefix(content, JpegMagic) THEN "image/jpeg"
    ELSE IF BytesPrefix(content, GzipMagic) THEN "application/gzip"
    ELSE IF BytesPrefix(content, ZipMagic) THEN "application/zip"
    ELSE "text/plain; charset=utf-8"

compressExcl ==
    {"application/x-7z-compressed", "application/zip", "application/x-bzip2",
     "application/gzip", "image/png", "image/jpg", "image/gif"}

shouldCompress(content) == Detect(content) \notin compressExcl

\* the body of Encode's loop for one file
EncodeFile(f, algo) ==
    IF f.Mode.dir \/ ~shouldCompress(f.Content) THEN f
    ELSE [f EXCEPT !.Compression = algo,
                   !.Content = HexEncode(IF algo = "Gzip" THEN GzipCompress(f.Content)
                                                          ELSE f.Content)]

\* the body of Decompress's loop for one file
DecompressFile(f) ==
    LET dec == HexDecode(f.Content)
        unz == GzipDecompress(dec.data)
    IN  IF dec.err # "" THEN [err |-> dec.err, f |-> f]
        ELSE IF f.Compression = "Gzip"
            THEN IF unz.err # "" THEN [err |-> unz.err, f |-> f]
                 ELSE [err |-> "", f |-> [f EXCEPT !.Content = unz.data]]
        ELSE [err |-> "", f |-> [f EXCEPT !.Content = dec.data]]

\* FileSystem.Encode(algo) (and Compress, which calls it)
Encode(algo) ==
    /\ stage = "raw"
    /\ files' = [p \in DOMAIN files |-> EncodeFile(files[p], algo)]
    /\ stage' = "encoded"
    /\ last' = Result("encode", algo, "")
    /\ UNCHANGED <<handles, host, umask, orig, concVars, genVars>>

\* FileSystem.Decompress(): the range over the map stops at the first file
\* that fails, having replaced the content of those it visited before
Decompress ==
    LET failing == {p \in DOMAIN files : DecompressFile(files[p]).err # ""} IN
    /\ stage = "encoded"
    /\ IF failing = {}
          THEN /\ files' = [p \in DOMAIN files |-> DecompressFile(files[p]).f]
               /\ stage' = "decoded"
               /\ last' = Result("decompress", "", "")
          ELSE \E bad \in failing, visited \in SUBSET (DOMAIN files \ failing) :
               /\ files' = [p \in DOMAIN files |->
                              IF p \in visited THEN DecompressFile(files[p]).f ELSE files[p]]
               /\ stage' = "failed"
               /\ last' = Result("decompress", bad, DecompressFile(files[bad]).err)
    /\ UNCHANGED <<handles, host, umask, orig, concVars, genVars>>

\* the contents of the files of the stores that are encoded
CodecContents == {<<104, 105>>, <<97, 98>>, PngMagic, JpegMagic \o <<224>>, GzipMagic \o <<8, 0>>}

CodecEntries(p) ==
    IF p = "dir" THEN {StoreFile(p)}
    ELSE {[StoreFile(p) EXCEPT !.Content = c] : c \in CodecContents \cup {<<>>}}

CodecStores ==
    UNION {{st \in [S -> UNION {CodecEntries(p) : p \in S}] : \A p \in S : st[p] \in CodecEntries(p)}
           : S \in SUBSET {"a.txt", "dir", "dir/b.txt"}}

InitCodec ==
    /\ files \in CodecStores
    /\ handles = <<>>
    /\ host = [p \in HostPaths |-> NoHostFile]
    /\ umask = {}
    /\ last = Result("", "", "")
    /\ pc = [g \in 1..NumGoroutines |-> "idle"]
    /\ arg = [g \in 1..NumGoroutines |-> ""]
    /\ stage = "raw"
    /\ orig = [p \in DOMAIN files |-> files[p].Content]
    /\ includedFiles = <<>>
    /\ idx = 0
    /\ fileSystems = <<>>
    /\ heap = <<>>
    /\ buildTag = ""
    /\ encoded = {}
    /\ genpc = "off"
    /\ compress = "None"

NextCodec ==
    \/ \E algo \in {"None", "Gzip"} : Encode(algo)
    \/ Decompress
    \/ \E name \in {"a.txt", "dir/b.txt"} : ReadFile(name)

SpecCodec == InitCodec /\ [][NextCodec]_vars

(***************************************************************************)
(* bincludegen: buildFS and the Encode loop of Generate                    *)
(***************************************************************************)
operatingSystems ==
    <<"linux", "windows", "darwin", "freebsd", "js", "plan9", "freebsd", "dragonfly",
      "openbsd", "solaris", "aix", "android">>

archs ==
    <<"ppc64", "386", "amd64", "wasm", "arm", "ppc64le", "mips", "mips64", "mips64le",
      "mipsle", "s390x", "arm64">>

\* for _, arch := range archs: the tag after the archs in list
RECURSIVE ArchLoop(_, _, _)
ArchLoop(goFile, list, tag) ==
    IF list = <<>> THEN tag
    ELSE ArchLoop(goFile, Tail(list),
                  IF HasSuffix(goFile, Head(list) \o ".go") THEN "_" \o Head(list) ELSE tag)

\* for _, sys := range operatingSystems: the tag after the systems in list
RECURSIVE SysLoop(_, _, _)
SysLoop(goFile, list, tag) ==
    IF list = <<>> THEN tag
    ELSE SysLoop(goFile, Tail(list),
                 IF HasSuffix(goFile, Head(list) \o tag \o ".go")
                     THEN "_" \o Head(list) \o tag ELSE tag)

\* the bundle key buildFS derives from the name of the declaring file
BuildTag(goFile) ==
    LET tag == SysLoop(goFile, operatingSystems, ArchLoop(goFile, archs, ""))
    IN  IF Len(tag) = 0 THEN "default" ELSE tag

\* the tree of the build host, in the lexical order filepath.Walk visits it
HostTree ==
    <<[path |-> "asset",          dir |-> TRUE,  perm |-> Perm0755, content |-> <<>>],
      [path |-> "asset/logo.png", dir |-> FALSE, perm |-> Perm0644, content |-> PngMagic],
      [path |-> "asset/sub",      dir |-> TRUE,  perm |-> Perm0755, content |-> <<>>],
      [path |-> "asset/sub/x",    dir |-> FALSE, perm |-> Perm0600, content |-> <<104, 105>>],
      [path |-> "file.txt",       dir |-> FALSE, perm |-> Perm0644, content |-> <<97, 98>>]>>

\* filepath.Walk(root, walkFn): root and everything below it
WalkList(root) ==
    SelectSeq(HostTree, LAMBDA e : e.path = root \/ HasPrefix(e.path, root \o "/"))

\* walkFn keeping one File per path: a path another bundle holds already is
\* stored as that bundle's File instead of a new one
WalkFnShared(st, tag, e) ==
    LET bundle == IF tag \in DOMAIN st.fss THEN st.fss[tag] ELSE <<>>
        others == {k \in DOMAIN st.fss : k # tag /\ e.path \in DOMAIN st.fss[k]}
        addr   == IF others = {} THEN Len(st.heap) + 1
                  ELSE st.fss[CHOOSE k \in others : TRUE][e.path]
    IN  [fss  |-> [k \in DOMAIN st.fss \cup {tag} |->
                     IF k = tag
                         THEN [q \in DOMAIN bundle \cup {e.path} |->
                                 IF q = e.path THEN addr ELSE bundle[q]]
                         ELSE st.fss[k]],
         heap |-> IF others = {}
                     THEN Append(st.heap, MkFile(Base(e.path), FileMode(e.dir, e.perm),
                                                 Len(e.path), e.content))
                     ELSE st.heap]

\* walkFn for one entry: the bundle is made if it is nil, and a new File is
\* stored under the entry's path.  st is the pair of fileSystems and heap.
WalkFn(st, tag, e) ==
    LET bundle == IF tag \in DOMAIN st.fss THEN st.fss[tag] ELSE <<>>
        addr   == Len(st.heap) + 1
    IN  [fss  |-> [k \in DOMAIN st.fss \cup {tag} |->
                     IF k = tag
                         THEN [q \in DOMAIN bundle \cup {e.path} |->
                                 IF q = e.path THEN addr ELSE bundle[q]]
                         ELSE st.fss[k]],
         heap |-> Append(st.heap,
                         MkFile(Base(e.path), FileMode(e.dir, e.perm), Len(e.path), e.content))]

RECURSIVE WalkInto(_, _, _)
WalkInto(st, tag, entries) ==
    IF entries = <<>> THEN st
    ELSE WalkInto(WalkFn(st, tag, Head(entries)), tag, Tail(entries))

\* one pass of buildFS's loop over includedFiles; ok: whether the walk
\* meets no I/O error (on one, buildFS returns nil and the error)
BuildStep(ok) ==
    LET file == includedFiles[idx + 1]
        tag  == BuildTag(file.goFile)
        st   == WalkInto([fss |-> fileSystems, heap |-> heap], tag, WalkList(file.includedPath))
    IN
    /\ genpc = "build"
    /\ idx < Len(includedFiles)
    /\ buildTag' = tag
    /\ IF ok
          THEN /\ fileSystems' = st.fss
               /\ heap' = st.heap
               /\ idx' = idx + 1
               /\ genpc' = "build"
          ELSE /\ fileSystems' = <<>>
               /\ heap' = <<>>
               /\ idx' = idx
               /\ genpc' = "failed"
    /\ UNCHANGED <<runtimeVars, concVars, codecVars, includedFiles, encoded, compress>>

\* return fileSystems, nil
BuildDone ==
    /\ genpc = "build"
    /\ idx = Len(includedFiles)
    /\ genpc' = "encode"
    /\ UNCHANGED <<runtimeVars, concVars, codecVars, includedFiles, idx, fileSystems, heap,
                   buildTag, encoded, compress>>

\* the addresses of the Files of bundle k
BundleFiles(k) == {fileSystems[k][q] : q \in DOMAIN fileSystems[k]}

\* one pass of Generate's loop over fileSystems: fs.Encode(compress)
EncodeBundle(k) ==
    /\ genpc = "encode"
    /\ k \in DOMAIN fileSystems \ encoded
    /\ heap' = [a \in DOMAIN heap |->
                  IF a \in BundleFiles(k) THEN EncodeFile(heap[a], compress) ELSE heap[a]]
    /\ encoded' = encoded \cup {k}
    /\ genpc' = IF encoded' = DOMAIN fileSystems THEN "done" ELSE "encode"
    /\ UNCHANGED <<runtimeVars, concVars, codecVars, includedFiles, idx, fileSystems,
                   buildTag, compress>>

\* what the scanner hands to buildFS
IncludePaths == {"asset", "file.txt"}
GoFiles == {"main.go", "net_linux.go", "net_windows_amd64.go", "alarm.go", "x_darwin_windows.go"}
IncludedFile == [includedPath : IncludePaths, goFile : GoFiles]

InitGen ==
    /\ files = <<>>
    /\ handles = <<>>
    /\ host = [p \in HostPaths |-> NoHostFile]
    /\ umask = {}
    /\ last = Result("", "", "")
    /\ pc = [g \in 1..NumGoroutines |-> "idle"]
    /\ arg = [g \in 1..NumGoroutines |-> ""]
    /\ stage = "off"
    /\ orig = <<>>
    /\ includedFiles \in UNION {[1..n -> IncludedFile] : n \in 0..MaxIncludes}
    /\ idx = 0
    /\ fileSystems = [k \in {"default"} |-> <<>>]
    /\ heap = <<>>
    /\ buildTag = ""
    /\ encoded = {}
    /\ genpc = "build"
    /\ compress \in {"None", "Gzip"}

NextGen ==
    \/ \E ok \in BOOLEAN : BuildStep(ok)
    \/ BuildDone
    \/ \E k \in DOMAIN fileSystems : EncodeBundle(k)

SpecGen == InitGen /\ [][NextGen]_vars

(***************************************************************************)
(* Properties of the run-time filesystem                                   *)
(***************************************************************************)
\* the bytes a handle at offset k yields when it is read with a buffer of n
Slice(content, k, n) == SubSeq(content, k + 1, Min(k + n, Len(content)))

\* C1: handles from separate Open calls have independent cursors: a read on
\* a handle its holder has not closed succeeds and continues from the offset
\* that handle's own reads and seeks have reached, whatever other handles on
\* the same path (or Stat, ReadFile, ReadDir, CopyFile) have done since.
C1_IndependentCursors ==
    (last.op = "read" /\ ~last.closedBefore) =>
        /\ last.err \in {"", "EOF"}
        /\ last.data = Slice(files[last.name].Content, last.expOff, last.n)
        /\ (last.err = "EOF") = (last.expOff >= Len(files[last.name].Content))

\* C3: a read on a handle after Close was called on it fails: it returns
\* neither data nor end-of-file.
C3_ReadAfterCloseFails ==
    (last.op = "read" /\ last.closedBefore) =>
        (last.err \notin {"", "EOF"} /\ last.data = <<>>)

\* C8: after a successful CopyFile the host file holds the record's content
\* and has the record's permission bits, whether or not it existed before.
C8_CopyFileReproduces ==
    (last.op = "copyFile" /\ last.err = "") =>
        /\ host[last.dst].exists
        /\ host[last.dst].content = files[last.key].Content
        /\ host[last.dst].perm = files[last.key].Mode.perm

\* p with one leading "./" removed, character by character
StripDotSlash(p) ==
    IF Len(p) >= 2 /\ CharAt(p, 1) = "." /\ CharAt(p, 2) = "/"
        THEN SubSeq(p, 3, Len(p)) ELSE p

\* Open fails with NotFound exactly when the name, less one leading "./",
\* is no key of the store, and otherwise returns the record under that key
OpenFailsIffAbsent ==
    last.op = "open" =>
        /\ (last.err = NotFound) = (StripDotSlash(last.name) \notin DOMAIN files)
        /\ last.err \in {"", NotFound}
        /\ last.err = "" => (last.key = StripDotSlash(last.name)
                             /\ files[last.key].reader = NewReader(files[last.key].Content))

\* Open("./" + p) has the outcome the Open(p) just made had
SameWithDotSlash(p) ==
    (last.op = "open" /\ last.name = p) =>
        OpenOutcome(files, "./" \o p) = [err |-> last.err, key |-> last.key]

\* C9 as stated: Open fails with NotFound iff the stripped name is no key,
\* and for EVERY name p, Open("./" + p) and Open(p) have the same outcome.
C9_Original ==
    /\ OpenFailsIffAbsent
    /\ \A p \in Names : SameWithDotSlash(p)

\* C9 amended: Open fails with NotFound iff the stripped name is no key, and
\* for every name p that does not itself begin with "./", Open("./" + p) and
\* Open(p) have the same outcome (the same error, or the same record and so
\* the same bytes).
C9_OpenStripsOneDotSlash ==
    /\ OpenFailsIffAbsent
    /\ \A p \in Names : ~HasPrefix(p, "./") =>
          /\ SameWithDotSlash(p)
          /\ OpenOutcome(files, "./" \o p) = OpenOutcome(files, p)
          /\ (OpenOutcome(files, p).err = "") = (p \in DOMAIN files)

C9_Witness ==
    /\ last.op = "open" /\ last.name = "./a.txt" /\ last.err = "" /\ last.key = "a.txt"
    /\ OpenOutcome(files, "././a.txt").err = NotFound

\* the directory holding the clean relative path p: what precedes its last
\* "/", or "." for a path with none
ParentOf(p) == IF LastSlash(p) = 0 THEN "." ELSE SubSeq(p, 1, LastSlash(p) - 1)

\* the directory ReadDir(name) lists
TargetOf(key) == IF files[key].Mode.dir THEN key ELSE ParentOf(key)

\* the records ReadDir(name) is to return
ChildrenOf(key) == {p \in DOMAIN files : ParentOf(p) = TargetOf(key)}

ReadDirExact ==
    (last.op = "readDir" /\ last.err = "") =>
        /\ Len(last.list) = Cardinality(ChildrenOf(last.key))
        /\ {last.list[i] : i \in DOMAIN last.list} = {FileStat(files[p]) : p \in ChildrenOf(last.key)}
        /\ \A i, j \in DOMAIN last.list : i < j => StrLess(last.list[i].name, last.list[j].name)

\* C5: ReadDir(path) on a path of the store returns exactly the metadata of
\* the records whose parent directory is the target directory (path itself
\* for a directory, the directory holding path otherwise), in ascending
\* order of name; and a second ReadDir(path) returns the identical list.
C5_ReadDirSortedExact ==
    /\ []ReadDirExact
    /\ [][(last.op = "readDir" /\ last'.op = "readDir" /\ last'.name = last.name)
             => last'.list = last.list]_vars

C5_Witness ==
    /\ last.op = "readDir" /\ last.name = "dir" /\ last.err = ""
    /\ Len(last.list) = 2
    /\ "a.txt" \in DOMAIN files

ListedNames == [i \in DOMAIN last.list |-> last.list[i].name]

ScenarioStore == {"a.txt", "dir/b.txt"}

ScenarioReads ==
    /\ (last.op = "readFile" /\ last.name = "a.txt") => (last.err = "" /\ last.data = Hello)
    /\ (last.op = "open" /\ last.name = "missing.txt") => last.err = NotFound

\* C6 as stated: in the store of exactly "a.txt" (hello) and "dir/b.txt"
\* (world), ReadDir("dir") succeeds with the single entry b.txt,
\* ReadFile("a.txt") returns hello, Open("missing.txt") fails with NotFound.
C6_Original ==
    DOMAIN files = ScenarioStore =>
        /\ ScenarioReads
        /\ (last.op = "readDir" /\ last.name = "dir") =>
               (last.err = "" /\ ListedNames = <<"b.txt">>)

\* C6 amended: in that store ReadDir("dir") fails with NotFound, there being
\* no record under "dir", while ReadDir("dir/b.txt") returns the single entry
\* b.txt; once the store also holds the directory record "dir",
\* ReadDir("dir") returns exactly the entry b.txt.  ReadFile("a.txt") returns
\* hello and Open("missing.txt") fails with NotFound in both stores.
C6_Scenario ==
    /\ DOMAIN files = ScenarioStore =>
          /\ ScenarioReads
          /\ (last.op = "readDir" /\ last.name = "dir") => last.err = NotFound
          /\ (last.op = "readDir" /\ last.name = "dir/b.txt") =>
                 (last.err = "" /\ ListedNames = <<"b.txt">>)
    /\ DOMAIN files = ScenarioStore \cup {"dir"} =>
          /\ ScenarioReads
          /\ (last.op = "readDir" /\ last.name \in {"dir", "./dir", "dir/b.txt"}) =>
                 (last.err = "" /\ ListedNames = <<"b.txt">>)

C6_Witness ==
    /\ DOMAIN files = ScenarioStore \cup {"dir"}
    /\ last.op = "readDir" /\ last.name = "dir" /\ ListedNames = <<"b.txt">>


(***************************************************************************)
(* Properties of Open under concurrency and of the compression pipeline    *)
(***************************************************************************)
\* a caller that has begun the assignments to the File and not finished them
InMutation(g) == pc[g] \in {"path", "fs"}

\* C2: Open is serialized: at most one caller at a time is inside Open's
\* assignment of a File's reader, path and fs fields.
C2_OpenSerialized == Cardinality({g \in Goroutines : InMutation(g)}) <= 1

\* C4: Decompress is the exact inverse of Compress: after Compress(algo) and
\* then Decompress(), Decompress has succeeded and reading any path to the
\* end yields the bytes the store held for it at first.
C4_RoundTrip ==
    stage \in {"decoded", "failed"} =>
        /\ stage = "decoded"
        /\ \A p \in DOMAIN files : ReadAll(FileOpened(files[p], p).reader) = orig[p]


(***************************************************************************)
(* Properties of the Bundle Partitioner                                    *)
(***************************************************************************)
IsOs(w)   == \E i \in DOMAIN operatingSystems : operatingSystems[i] = w
IsArch(w) == \E i \in DOMAIN archs : archs[i] = w

\* the name of a declaring file before its extension, as "_"-separated words
RECURSIVE Words(_)
Words(s) ==
    LET idxs == {i \in 1..Len(s) : CharAt(s, i) = "_"}
    IN  IF idxs = {} THEN <<s>>
        ELSE LET i == CHOOSE k \in idxs : \A j \in idxs : k <= j
             IN  <<SubSeq(s, 1, i - 1)>> \o Words(SubSeq(s, i + 1, Len(s)))

Stem(goFile) == IF HasSuffix(goFile, ".go") THEN SubSeq(goFile, 1, Len(goFile) - 3) ELSE goFile

\* the key the suffix rule gives: _<os>_<arch>, _<arch> or _<os> when the
\* name before the extension ends with it, "default" in every other case,
\* a name ending in two os words among them
SuffixKey(goFile) ==
    LET w == Words(Stem(goFile))
        n == Len(w)
    IN  IF n >= 3 /\ IsOs(w[n - 1]) /\ IsArch(w[n]) THEN "_" \o w[n - 1] \o "_" \o w[n]
        ELSE IF n >= 3 /\ IsOs(w[n - 1]) /\ IsOs(w[n]) THEN "default"
        ELSE IF n >= 2 /\ (IsArch(w[n]) \/ IsOs(w[n])) THEN "_" \o w[n]
        ELSE "default"

\* C7: the bundle key of every include is the one the suffix rule gives for
\* the name of its declaring file.
C7_KeyFromSuffix ==
    (genpc = "build" /\ idx > 0) => buildTag = SuffixKey(includedFiles[idx].goFile)

\* the includes buildFS has walked
Walked == 1..idx

\* the paths below the included path of include i
WalkPaths(i) ==
    {HostTree[j].path : j \in {j \in DOMAIN HostTree :
        \/ HostTree[j].path = includedFiles[i].includedPath
        \/ HasPrefix(HostTree[j].path, includedFiles[i].includedPath \o "/")}}

HostEntry(p) == HostTree[CHOOSE j \in DOMAIN HostTree : HostTree[j].path = p]

\* the File of path p as built from the host, and as Encode leaves it
Built(p) ==
    MkFile(Base(p), FileMode(HostEntry(p).dir, HostEntry(p).perm), Len(p), HostEntry(p).content)

\* every bundle holds exactly the entries of the includes declared under its
\* key, each as a File of its own holding the host's bytes (encoded once,
\* after its bundle's Encode), and "default" is the only bundle without one
BundlesExact ==
    /\ DOMAIN fileSystems = {"default"} \cup {BuildTag(includedFiles[i].goFile) : i \in Walked}
    /\ \A k \in DOMAIN fileSystems :
          /\ DOMAIN fileSystems[k] =
                UNION {WalkPaths(i) : i \in {i \in Walked : BuildTag(includedFiles[i].goFile) = k}}
          /\ \A q \in DOMAIN fileSystems[k] :
                heap[fileSystems[k][q]] =
                    IF k \in encoded THEN EncodeFile(Built(q), compress) ELSE Built(q)
    /\ \A k1, k2 \in DOMAIN fileSystems : k1 # k2 => BundleFiles(k1) \cap BundleFiles(k2) = {}

AssetPaths == {"asset", "asset/logo.png", "asset/sub", "asset/sub/x"}

LinuxAndWindows ==
    <<[includedPath |-> "asset", goFile |-> "net_linux.go"],
      [includedPath |-> "asset", goFile |-> "net_windows_amd64.go"]>>

\* C10: net_linux.go and net_windows_amd64.go each including asset give the
\* bundles _linux and _windows_amd64, each with a record of its own for every
\* entry under asset/ (encoding one bundle leaves the other as it was); in
\* general an included path is inserted in full into the bundle of each key
\* it is declared under and into no other bundle.
C10_BundlesSelfContained ==
    genpc \in {"build", "encode", "done"} =>
        /\ BundlesExact
        /\ (includedFiles = LinuxAndWindows /\ idx = 2) =>
              /\ DOMAIN fileSystems = {"default", "_linux", "_windows_amd64"}
              /\ DOMAIN fileSystems["_linux"] = AssetPaths
              /\ DOMAIN fileSystems["_windows_amd64"] = AssetPaths
              /\ DOMAIN fileSystems["default"] = {}

C10_Witness ==
    /\ includedFiles = LinuxAndWindows
    /\ genpc = "encode"
    /\ encoded = {"_linux"}
    /\ compress = "Gzip"
    /\ heap[fileSystems["_linux"]["asset/sub/x"]].Compression = "Gzip"
    /\ heap[fileSystems["_windows_amd64"]["asset/sub/x"]].Content = <<104, 105>>

=============================================================================
